---- MODULE Spec2Model ----
(***************************************************************************)
(* Cart lifecycle engine of the pelzsecret backend                         *)
(* (backend/src/controllers/cart.js, backend/src/models/index.js).          *)
(*                                                                         *)
(* The Cart collection carries a unique index on sessionId, so it is a     *)
(* partial function from session ids to cart documents.  Every controller  *)
(* is one request handled to completion: one action.  Money is counted in  *)
(* cents, time in hours.                                                   *)
(***************************************************************************)
EXTENDS Integers, Sequences, FiniteSets, TLC

\* ---------------------------------------------------------------- constants
CART_EXPIRATION_HOURS == 24
MAX_ITEMS_PER_CART == 50
MIN_QUANTITY_PER_ITEM == 1
MAX_QUANTITY_PER_ITEM == 10

\* ------------------------------------------------------------------- bounds
\* the clock advances by TickStep hours, up to MaxNow
TickStep == 25
MaxNow == TickStep
\* item _ids handed out to lines pushed by AddItem
MaxItemIds == 1
\* number of lines of the cart that session s1 starts with in SpecFull
FillerLines == MAX_ITEMS_PER_CART
\* the _id of the k-th of these lines
FillerId(k) == 100 + k

\* orders the Order collection can take
MaxOrders == 2

Sessions == {"s1", "s2"}
\* a request may also come without a session id (falsy value)
NoSession == "none"
SessionInputs == Sessions \cup {NoSession}

Products == {"p1", "p2"}
\* the products the administrator edits
AdminProducts == {"p1"}
NoProductId == "none"
\* the products requests ask for; a request may also come without product id
ProductInputs == {"p1", NoProductId}

\* variant ids; NoVariant is the null of a request without variantId
NoVariant == "null"
VariantInputs == {NoVariant, "v1"}

\* quantities a request may carry: below the minimum, valid, above the maximum
QuantityInputs == {0, 5, 11}

\* inventory values an administrator writes
InventoryInputs ==
    { [quantity |-> 10, reserved |-> 0],
      [quantity |-> 10, reserved |-> 6] }

\* a document that does not exist
NoCart == [missing |-> TRUE]
NoProduct == [gone |-> TRUE]
\* the value of a Date path that was never set
NoDate == -1
\* Order.findOne(...) === null
NoOrder == [absent |-> TRUE]
\* the Order collection, by position of the order number
NoOrders == [n \in 1..MaxOrders |-> NoOrder]
\* the requests that can be in progress at once
Requests == {"r1", "r2"}
IdleRequest == [pc |-> "idle"]
IdleReqs == [r \in Requests |-> IdleRequest]

VARIABLES carts, products, now, nextItemId, last, orders, reqs, cartDocs

vars == <<carts, products, now, nextItemId, last, orders, reqs, cartDocs>>

\* ------------------------------------------------------------ pure functions
\* items.reduce((sum, item) => sum + item.price * item.quantity, 0) over the
\* lines lo..hi; the range is halved to keep the evaluation shallow
RECURSIVE SumRange(_, _, _)
SumRange(items, lo, hi) ==
    IF lo > hi THEN 0
    ELSE IF lo = hi THEN items[lo].price * items[lo].quantity
    ELSE LET mid == (lo + hi) \div 2
         IN  SumRange(items, lo, mid) + SumRange(items, mid + 1, hi)

SumLines(items) == SumRange(items, 1, Len(items))

\* Number(x.toFixed(2)) for an amount given in tenths of a cent; toFixed
\* rounds the magnitude and puts the sign back
ToFixed2(tenths) ==
    IF tenths < 0 THEN 0 - ((5 - tenths) \div 10) ELSE (tenths + 5) \div 10

calculateCartTotals(items) ==
    LET subtotal == SumLines(items)
        \* taxRate = 0.1: the tax in tenths of a cent is the subtotal in cents
        tax == subtotal
        total == 10 * subtotal + tax
    IN  [subtotal |-> ToFixed2(10 * subtotal),
         tax |-> ToFixed2(tax),
         total |-> ToFixed2(total)]

\* a faulty variant: an unset updatedAt is read as the epoch, long expired
isCartExpired_UnsetIsOld(cart, t) ==
    \/ cart.updatedAt = NoDate
    \/ t > cart.updatedAt + CART_EXPIRATION_HOURS

\* new Date() > updatedAt + 24h; an unset updatedAt gives an Invalid Date,
\* and every comparison with it is false
isCartExpired(cart, t) ==
    /\ cart.updatedAt # NoDate
    /\ t > cart.updatedAt + CART_EXPIRATION_HOURS

\* a faulty variant: a request without variant matches no line
MatchesLine_VariantRequired(item, productId, variantId) ==
    /\ item.product = productId
    /\ variantId # "null"
    /\ item.variant = variantId

\* the line an AddItem request or a merged source item is matched with:
\* same product and (no variant asked for, or the same variant)
MatchesLine(item, productId, variantId) ==
    /\ item.product = productId
    /\ (variantId = NoVariant \/ item.variant = variantId)

\* the least element of a set of indexes, 0 for the empty set ("not found")
FirstOf(indexes) ==
    IF indexes = {} THEN 0
    ELSE CHOOSE i \in indexes : \A j \in indexes : i <= j

\* Array.prototype.findIndex / find with MatchesLine: the first line accepted
FindLineIndex(items, productId, variantId) ==
    FirstOf({i \in 1..Len(items) : MatchesLine(items[i], productId, variantId)})

\* a faulty variant: the first line is taken, whatever its _id
FindItemIndex_First(items, itemId) == IF Len(items) > 0 THEN 1 ELSE 0

\* cart.items.id(itemId) and findIndex(item => item._id.toString() === itemId)
FindItemIndex(items, itemId) ==
    FirstOf({i \in 1..Len(items) : items[i].id = itemId})

\* a faulty variant: the last line is taken out, wherever the item is
RemoveAt_Last(items, i) == SubSeq(items, 1, Len(items) - 1)

RemoveAt(items, i) ==
    [j \in 1..(Len(items) - 1) |-> IF j < i THEN items[j] ELSE items[j + 1]]

Min(a, b) == IF a < b THEN a ELSE b

\* the quantity a matched target line gets in a merge
MergedQuantity(targetQuantity, sourceQuantity) ==
    Min(targetQuantity + sourceQuantity, MAX_QUANTITY_PER_ITEM)

\* one iteration of the merge loop
MergeOne(targetItems, sourceItem) ==
    LET i == FindLineIndex(targetItems, sourceItem.product, sourceItem.variant)
    IN  IF i > 0
        THEN [targetItems EXCEPT ![i].quantity =
                    MergedQuantity(targetItems[i].quantity, sourceItem.quantity)]
        ELSE IF Len(targetItems) >= MAX_ITEMS_PER_CART
        THEN targetItems
        ELSE Append(targetItems, sourceItem)

\* the merge loop from source item k on: for (const sourceItem of sourceCart.items).
\* The test on Len makes the evaluator compute each intermediate list before
\* the next iteration (it is always true).
RECURSIVE MergeFrom(_, _, _)
MergeFrom(targetItems, sourceItems, k) ==
    IF k > Len(sourceItems) THEN targetItems
    ELSE LET next == MergeOne(targetItems, sourceItems[k])
         IN  IF Len(next) >= 0 THEN MergeFrom(next, sourceItems, k + 1)
             ELSE next

MergeItems(targetItems, sourceItems) == MergeFrom(targetItems, sourceItems, 1)

\* a faulty variant: the reserved units are not subtracted
AvailableQuantity_IgnoresReserved(product) == product.quantity

\* product.inventory.quantity - product.inventory.reserved
AvailableQuantity(product) == product.quantity - product.reserved

\* the test of the availability filter of getCartBySessionController
ItemUnavailable(item, prods) ==
    \/ prods[item.product] = NoProduct
    \/ ~prods[item.product].isActive
    \/ prods[item.product].quantity < item.quantity

ZeroTotals == [subtotal |-> 0, tax |-> 0, total |-> 0]

\* a faulty variant: a new cart is stamped with the time of the epoch
NewCart_Stamped(s) ==
    [sessionId |-> s, items |-> <<>>, status |-> "active",
     totals |-> [subtotal |-> 0, tax |-> 0, total |-> 0], updatedAt |-> 0]

NewCart(s) ==
    [sessionId |-> s, items |-> <<>>, status |-> "active",
     totals |-> ZeroTotals, updatedAt |-> NoDate]

\* the response of the last request
Resp(op, s, result, code, body) ==
    [op |-> op, session |-> s, result |-> result, code |-> code]

NoBody == <<>>

\* ---------------------------------------------------------------- initially
FillerItems ==
    [i \in 1..FillerLines |->
        [id |-> FillerId(i), product |-> IF i = 1 THEN "p2" ELSE "p1",
         variant |-> "f" \o ToString(i), quantity |-> 1,
         price |-> IF i = 1 THEN 500 ELSE 1999]]

FilledCart(s) ==
    [sessionId |-> s, items |-> FillerItems, status |-> "active",
     totals |-> calculateCartTotals(FillerItems), updatedAt |-> 0]

InitProducts ==
    [p \in Products |->
        [price |-> IF p = "p1" THEN 1999 ELSE 500, isActive |-> TRUE,
         quantity |-> 10, reserved |-> 0]]

Init ==
    /\ carts = [s \in Sessions |-> NoCart]
    /\ products = InitProducts
    /\ now = 0
    /\ nextItemId = 1
    /\ last = Resp("Init", NoSession, "ok", 0, NoBody)
    /\ orders = NoOrders
    /\ reqs = IdleReqs
    /\ cartDocs = <<>>

\* ------------------------------------------------------------------ actions
Tick ==
    /\ now < MaxNow
    /\ now' = now + TickStep
    /\ last' = Resp("Tick", NoSession, "ok", 0, NoBody)
    /\ UNCHANGED <<carts, products, nextItemId, orders, reqs, cartDocs>>

\* createCartController
Create(s) ==
    LET R(result, code, body) ==
            Resp("Create", s, result, code, body)
    IN
    /\ UNCHANGED <<products, now, nextItemId, orders, reqs, cartDocs>>
    /\ IF s = NoSession
       THEN /\ last' = R("ValidationError", 400, NoBody)
            /\ UNCHANGED carts
       ELSE IF carts[s] # NoCart /\ ~isCartExpired(carts[s], now)
       THEN /\ last' = R("Conflict", 400, NoBody)
            /\ UNCHANGED carts
       ELSE LET afterExpire ==
                    IF carts[s] # NoCart
                    THEN [carts EXCEPT ![s].status = "expired",
                                       ![s].updatedAt = now]
                    ELSE carts
            IN  \* Cart.create: the unique index on sessionId rejects a second
                \* document for the same session
                IF afterExpire[s] # NoCart
                THEN /\ carts' = afterExpire
                     /\ last' = R("DuplicateKey", 500, NoBody)
                ELSE /\ carts' = [afterExpire EXCEPT ![s] = NewCart(s)]
                     /\ last' = R("ok", 201, NoBody)

\* a faulty variant: the expiration branch forgets to set the status
Expire_KeepsStatus(cart) == cart

\* a faulty variant: the expiration branch makes the cart active
Expire_Reactivates(cart) == [cart EXCEPT !.status = "active"]

\* a faulty variant: the expiration branch also empties the cart
Expire_DropsItems(cart) == [cart EXCEPT !.status = "expired", !.items = <<>>]

\* the in-memory document after the expiration branch: cart.status = "expired"
Expire(cart) == [cart EXCEPT !.status = "expired"]

\* cart.items.filter(async ...): the callback returns a promise, which is
\* truthy, so filter keeps every item; Promise.all passes the items through
FilteredItems(items, prods) == SelectSeq(items, LAMBDA item : TRUE)

\* needsUpdate as read after "await Promise.all": every callback is still
\* suspended at its "await Product.findById", none has assigned the flag
NeedsUpdate(items, prods) == FALSE

\* getCartBySessionController
Get(s) ==
    LET R(result, code, body) ==
            Resp("Get", s, result, code, body)
        cart == carts[s]
    IN
    /\ UNCHANGED <<products, now, nextItemId, orders, reqs, cartDocs>>
    /\ IF cart = NoCart
       THEN /\ last' = R("NotFound", 404, NoBody)
            /\ UNCHANGED carts
       ELSE IF isCartExpired(cart, now)
       THEN /\ carts' = [carts EXCEPT ![s] = Expire(cart)]
            /\ last' = R("Expired", 400, NoBody)
       ELSE LET kept == [cart EXCEPT !.items = FilteredItems(cart.items, products)]
                saved == [kept EXCEPT !.totals = calculateCartTotals(kept.items),
                                      !.updatedAt = now]
            IN  IF NeedsUpdate(cart.items, products)
                THEN /\ carts' = [carts EXCEPT ![s] = saved]
                     /\ last' = R("ok", 200, saved)
                ELSE /\ UNCHANGED carts
                     /\ last' = R("ok", 200, kept)

\* a faulty variant: the limit check lets a full cart take one more line
CartIsFull_OffByOne(items) == Len(items) > MAX_ITEMS_PER_CART

\* the check of the cart items limit in addCartItemController
CartIsFull(items) == Len(items) >= MAX_ITEMS_PER_CART

\* a faulty variant: the merged quantity is compared with the wrong limit
ExceedsQuantity_WrongLimit(newQuantity) == newQuantity > MAX_ITEMS_PER_CART

\* the check of the merged quantity in addCartItemController
ExceedsQuantity(newQuantity) == newQuantity > MAX_QUANTITY_PER_ITEM

\* the inventory validation of addCartItemController and updateCartItemController
InsufficientInventory(product, quantity) == AvailableQuantity(product) < quantity

\* the quantity validation of addCartItemController and updateCartItemController
InvalidQuantity(quantity) ==
    quantity < MIN_QUANTITY_PER_ITEM \/ quantity > MAX_QUANTITY_PER_ITEM

\* a faulty variant: the totals are computed before the items are changed
AddedCart_StaleTotals(cart, index, productId, variantId, quantity, price, id, t) ==
    LET items ==
            IF index > 0
            THEN [cart.items EXCEPT ![index].quantity = @ + quantity]
            ELSE Append(cart.items,
                        [id |-> id, product |-> productId, variant |-> variantId,
                         quantity |-> quantity, price |-> price])
    IN  [cart EXCEPT !.items = items,
                     !.totals = calculateCartTotals(cart.items),
                     !.updatedAt = t]

\* a faulty variant: a line that takes more quantity takes the current price
AddedCart_Reprices(cart, index, productId, variantId, quantity, price, id, t) ==
    LET items ==
            IF index > 0
            THEN [cart.items EXCEPT ![index].quantity = @ + quantity,
                                    ![index].price = price]
            ELSE Append(cart.items,
                        [id |-> id, product |-> productId, variant |-> variantId,
                         quantity |-> quantity, price |-> price])
    IN  [cart EXCEPT !.items = items,
                     !.totals = calculateCartTotals(items),
                     !.updatedAt = t]

\* the document addCartItemController saves on success
AddedCart(cart, index, productId, variantId, quantity, price, id, t) ==
    LET items ==
            IF index > 0
            THEN [cart.items EXCEPT ![index].quantity = @ + quantity]
            ELSE Append(cart.items,
                        [id |-> id, product |-> productId, variant |-> variantId,
                         quantity |-> quantity, price |-> price])
    IN  [cart EXCEPT !.items = items,
                     !.totals = calculateCartTotals(items),
                     !.updatedAt = t]

\* addCartItemController
AddItem(s, productId, quantity, variantId) ==
    LET R(result, code, body) ==
            Resp("AddItem", s, result, code, body)
        cart == carts[s]
        product == products[productId]
        index == FindLineIndex(cart.items, productId, variantId)
        Fail(result, code) ==
            /\ last' = R(result, code, NoBody)
            /\ UNCHANGED <<carts, nextItemId>>
    IN
    /\ UNCHANGED <<products, now, orders, reqs, cartDocs>>
    /\ IF productId = NoProductId THEN Fail("ValidationError", 400)
       ELSE IF InvalidQuantity(quantity) THEN Fail("ValidationError", 400)
       ELSE IF cart = NoCart THEN Fail("NotFound", 404)
       ELSE IF isCartExpired(cart, now)
       THEN /\ carts' = [carts EXCEPT ![s] = Expire(cart)]
            /\ last' = R("Expired", 400, NoBody)
            /\ UNCHANGED nextItemId
       ELSE IF cart.status # "active" THEN Fail("Conflict", 400)
       ELSE IF CartIsFull(cart.items) THEN Fail("LimitExceeded", 400)
       ELSE IF product = NoProduct THEN Fail("NotFound", 404)
       ELSE IF ~product.isActive THEN Fail("Unavailable", 404)
       ELSE IF InsufficientInventory(product, quantity)
       THEN Fail("InsufficientInventory", 400)
       ELSE IF index > 0 /\ ExceedsQuantity(cart.items[index].quantity + quantity)
       THEN Fail("LimitExceeded", 400)
       ELSE LET saved == AddedCart(cart, index, productId, variantId, quantity,
                                   product.price, nextItemId, now)
            IN  /\ index = 0 => nextItemId <= MaxItemIds
                /\ carts' = [carts EXCEPT ![s] = saved]
                /\ nextItemId' = IF index > 0 THEN nextItemId ELSE nextItemId + 1
                /\ last' = R("ok", 200, NoBody)

\* updateCartItemController
UpdateItemQuantity(s, itemId, quantity) ==
    LET R(result, code, body) ==
            Resp("UpdateItemQuantity", s, result, code, body)
        cart == carts[s]
        index == FindItemIndex(cart.items, itemId)
        product == products[cart.items[index].product]
        Fail(result, code) ==
            /\ last' = R(result, code, NoBody)
            /\ UNCHANGED carts
    IN
    /\ UNCHANGED <<products, now, nextItemId, orders, reqs, cartDocs>>
    /\ IF quantity = 0 \/ InvalidQuantity(quantity) THEN Fail("ValidationError", 400)
       ELSE IF cart = NoCart THEN Fail("NotFound", 404)
       ELSE IF isCartExpired(cart, now)
       THEN /\ carts' = [carts EXCEPT ![s] = Expire(cart)]
            /\ last' = R("Expired", 400, NoBody)
       ELSE IF cart.status # "active" THEN Fail("Conflict", 400)
       ELSE IF index = 0 THEN Fail("NotFound", 404)
       ELSE IF product = NoProduct \/ ~product.isActive THEN Fail("Unavailable", 404)
       ELSE IF InsufficientInventory(product, quantity)
       THEN Fail("InsufficientInventory", 400)
       ELSE LET items == [cart.items EXCEPT ![index].quantity = quantity]
                saved == [cart EXCEPT !.items = items,
                                      !.totals = calculateCartTotals(items),
                                      !.updatedAt = now]
            IN  /\ carts' = [carts EXCEPT ![s] = saved]
                /\ last' = R("ok", 200, saved)

\* removeCartItemController
RemoveItem(s, itemId) ==
    LET R(result, code, body) ==
            Resp("RemoveItem", s, result, code, body)
        cart == carts[s]
        index == FindItemIndex(cart.items, itemId)
        Fail(result, code) ==
            /\ last' = R(result, code, NoBody)
            /\ UNCHANGED carts
    IN
    /\ UNCHANGED <<products, now, nextItemId, orders, reqs, cartDocs>>
    /\ IF cart = NoCart THEN Fail("NotFound", 404)
       ELSE IF isCartExpired(cart, now)
       THEN /\ carts' = [carts EXCEPT ![s] = Expire(cart)]
            /\ last' = R("Expired", 400, NoBody)
       ELSE IF cart.status # "active" THEN Fail("Conflict", 400)
       ELSE IF index = 0 THEN Fail("NotFound", 404)
       ELSE LET items == RemoveAt(cart.items, index)
                saved == [cart EXCEPT !.items = items,
                                      !.totals = calculateCartTotals(items),
                                      !.updatedAt = now]
            IN  /\ carts' = [carts EXCEPT ![s] = saved]
                /\ last' = R("ok", 200, saved)

\* the document clearCartController saves
ClearedCart(cart, t) ==
    [cart EXCEPT !.items = <<>>, !.totals = ZeroTotals, !.updatedAt = t]

\* clearCartController
Clear(s) ==
    LET R(result, code, body) ==
            Resp("Clear", s, result, code, body)
        cart == carts[s]
        Fail(result, code) ==
            /\ last' = R(result, code, NoBody)
            /\ UNCHANGED carts
    IN
    /\ UNCHANGED <<products, now, nextItemId, orders, reqs, cartDocs>>
    /\ IF cart = NoCart THEN Fail("NotFound", 404)
       ELSE IF isCartExpired(cart, now)
       THEN /\ carts' = [carts EXCEPT ![s] = Expire(cart)]
            /\ last' = R("Expired", 404, NoBody)
       ELSE IF cart.status # "active" THEN Fail("Conflict", 404)
       ELSE /\ carts' = [carts EXCEPT ![s] = ClearedCart(cart, now)]
            /\ last' = R("ok", 200, NoBody)

\* mergeCartsController
Merge(source, target) ==
    LET R(result, code, body) ==
            Resp("Merge", source, result, code, body)
        \* Cart.findOne({ sessionId, status: "active" })
        Found(s) == s # NoSession /\ carts[s] # NoCart /\ carts[s].status = "active"
        sourceCart == carts[source]
        targetCart == carts[target]
        items == MergeItems(targetCart.items, sourceCart.items)
        merged == [targetCart EXCEPT !.items = items,
                                     !.totals = calculateCartTotals(items),
                                     !.updatedAt = now]
        \* targetCart.save(), then findByIdAndUpdate on the source document
        afterSave == [carts EXCEPT ![target] = merged]
    IN
    /\ UNCHANGED <<products, now, nextItemId, orders, reqs, cartDocs>>
    /\ IF source = NoSession \/ target = NoSession
       THEN /\ last' = R("ValidationError", 400, NoBody)
            /\ UNCHANGED carts
       ELSE IF ~Found(source) \/ ~Found(target)
       THEN /\ last' = R("NotFound", 404, NoBody)
            /\ UNCHANGED carts
       ELSE /\ carts' = [afterSave EXCEPT ![source].status = "merged",
                                          ![source].updatedAt = now]
            /\ last' = R("ok", 200, merged)

\* ----------------------------------------------- the product directory
AdminResp(op, p) ==
    Resp(op, NoSession, "ok", 200, NoBody)

\* updateProductController with { isActive }
SetProductActive(p, active) ==
    /\ products[p] # NoProduct
    /\ products[p].isActive # active
    /\ products' = [products EXCEPT ![p].isActive = active]
    /\ last' = AdminResp("SetProductActive", p)
    /\ UNCHANGED <<carts, now, nextItemId, orders, reqs, cartDocs>>

\* prices an administrator writes, in cents; no validation bounds them
PriceInputs == {2500, -2000}

\* updateProductController with { price }
UpdateProductPrice(p, price) ==
    /\ products[p] # NoProduct
    /\ products[p].price # price
    /\ products' = [products EXCEPT ![p].price = price]
    /\ last' = AdminResp("UpdateProductPrice", p)
    /\ UNCHANGED <<carts, now, nextItemId, orders, reqs, cartDocs>>

\* deleteProductController
DeleteProduct(p) ==
    /\ products[p] # NoProduct
    /\ products' = [products EXCEPT ![p] = NoProduct]
    /\ last' = AdminResp("DeleteProduct", p)
    /\ UNCHANGED <<carts, now, nextItemId, orders, reqs, cartDocs>>

\* updateProductInventoryController
UpdateInventory(p, inventory) ==
    /\ products[p] # NoProduct
    /\ products' = [products EXCEPT ![p].quantity = inventory.quantity,
                                    ![p].reserved = inventory.reserved]
    /\ last' = AdminResp("UpdateInventory", p)
    /\ UNCHANGED <<carts, now, nextItemId, orders, reqs, cartDocs>>

\* the item ids requests name: the lines AddItem pushed and one initial line
ItemIdInputs == (1..MaxItemIds) \cup {FillerId(1)}

\* the requests of the cart controllers
CartRequest ==
    \/ \E s \in SessionInputs : Create(s)
    \/ \E s \in Sessions : Get(s)
    \/ \E s \in Sessions, p \in ProductInputs, q \in QuantityInputs,
          v \in VariantInputs : AddItem(s, p, q, v)
    \/ \E s \in Sessions, i \in ItemIdInputs, q \in QuantityInputs :
          UpdateItemQuantity(s, i, q)
    \/ \E s \in Sessions, i \in ItemIdInputs : RemoveItem(s, i)
    \/ \E s \in Sessions : Clear(s)
    \/ \E s \in SessionInputs, t \in SessionInputs : Merge(s, t)

\* the requests of the product administration
AdminRequest ==
    \/ \E p \in AdminProducts, a \in BOOLEAN : SetProductActive(p, a)
    \/ \E p \in AdminProducts : DeleteProduct(p)
    \/ \E p \in AdminProducts, inv \in InventoryInputs : UpdateInventory(p, inv)

\* ------------------------------------------------------------------ orders
\* Amounts of an order are counted in hundredths of a cent, so that the 9% tax
\* on a subtotal in cents is a whole number.

\* the n-th order number handed out: `ORD-${Date.now()}`
OrderNumber(n) == "ORD-" \o ToString(n)

\* the orders stored
OrderCount == Cardinality({n \in 1..MaxOrders : orders[n] # NoOrder})

\* Date.now() of a request: the millisecond of the latest order, or a later one
StampInputs == {n \in 1..MaxOrders : n = OrderCount \/ n = OrderCount + 1}

NoCustomer == "none"
CustomerInputs == {"c1", NoCustomer}
NoPaymentMethod == "none"
PaymentMethodInputs == {"card", NoPaymentMethod}
\* req.body.shipping: absent, with a cost of 3.00, or without a cost
NoShipping == [missing |-> TRUE]
NoCost == -1
ShippingInputs == {NoShipping, [cost |-> 300], [cost |-> NoCost]}

\* a faulty variant: an unknown status is accepted
ValidStatuses_WithUnknown ==
    {"pending", "processing", "shipped", "delivered", "cancelled", "unknown"}

\* the statuses the two update controllers accept, and the ones the schema stores
ValidStatuses == {"pending", "processing", "shipped", "delivered", "cancelled"}
ValidPaymentStatuses ==
    {"pending", "processing", "paid", "failed", "refunded", "refund_pending"}
SchemaPaymentStatuses == {"pending", "paid", "failed"}
StatusInputs == {"shipped", "cancelled", "unknown"}
PaymentStatusInputs == {"paid", "failed", "refunded", "unknown"}

\* a faulty variant: the customer is not required
MissingFields_WithoutCustomer(s, customer, paymentMethod, shipping) ==
    \/ s = NoSession
    \/ paymentMethod = NoPaymentMethod
    \/ shipping = NoShipping

\* !sessionId || !customer || !paymentMethod || !shipping
MissingFields(s, customer, paymentMethod, shipping) ==
    \/ s = NoSession
    \/ customer = NoCustomer
    \/ paymentMethod = NoPaymentMethod
    \/ shipping = NoShipping

\* a faulty variant: the shipping cost is left out of the total
OrderTotals_WithoutShipping(items, shipping) ==
    LET cents == SumLines(items)
    IN  [subtotal |-> 100 * cents,
         tax |-> 9 * cents,
         total |-> 100 * cents + 9 * cents]

\* subtotal, tax = subtotal * 0.09, total = subtotal + tax + shipping.cost
OrderTotals(items, shipping) ==
    LET cents == SumLines(items)
    IN  [subtotal |-> 100 * cents,
         tax |-> 9 * cents,
         total |-> 100 * cents + 9 * cents + 100 * shipping.cost]

\* the document handed to Order.create
NewOrder(n, customer, paymentMethod, shipping, items) ==
    LET totals == OrderTotals(items, shipping)
    IN  [orderNumber |-> OrderNumber(n),
         customer |-> customer,
         items |-> items,
         subtotal |-> totals.subtotal,
         tax |-> totals.tax,
         shipping |-> shipping,
         total |-> totals.total,
         status |-> "pending",
         paymentStatus |-> "pending",
         paymentMethod |-> paymentMethod]

\* Order.create rejects the document: the total is NaN when shipping has no
\* cost, and the order number is unique
OrderRejected(n, shipping) ==
    \/ shipping.cost = NoCost
    \/ orders[n] # NoOrder

\* a faulty variant: the cart is kept and marked as converted
CartDeleted_MarksConverted(s) == [carts EXCEPT ![s].status = "converted"]

\* the Cart collection after Cart.findOneAndDelete({ sessionId })
CartDeleted(s) == [carts EXCEPT ![s] = NoCart]

\* createOrderController, handled without another request in between
CreateOrder(s, customer, paymentMethod, shipping, stamp, deleteFails) ==
    LET R(result, code) == Resp("CreateOrder", s, result, code, NoBody)
        cart == carts[s]
    IN
    /\ UNCHANGED <<products, now, nextItemId, reqs, cartDocs>>
    /\ IF MissingFields(s, customer, paymentMethod, shipping)
       THEN /\ last' = R("BadRequest", 400)
            /\ UNCHANGED <<carts, orders>>
       ELSE IF cart = NoCart \/ Len(cart.items) = 0
       THEN /\ last' = R("NotFound", 404)
            /\ UNCHANGED <<carts, orders>>
       ELSE IF OrderRejected(stamp, shipping)
       THEN /\ last' = R("Failed", 500)
            /\ UNCHANGED <<carts, orders>>
       ELSE /\ orders' = [orders EXCEPT ![stamp] =
                    NewOrder(stamp, customer, paymentMethod, shipping, cart.items)]
            \* Cart.findOneAndDelete({ sessionId }); a rejection is caught
            \* by the catch block of the controller
            /\ IF deleteFails
               THEN /\ last' = R("Failed", 500)
                    /\ UNCHANGED carts
               ELSE /\ carts' = CartDeleted(s)
                    /\ last' = R("ok", 201)

\* the response to an update of order n, with the status and the payment
\* status the order was found with
OrderResp(op, n, result, code) ==
    [op |-> op, session |-> OrderNumber(n), result |-> result, code |-> code,
     was |-> [status |-> orders[n].status,
              paymentStatus |-> orders[n].paymentStatus]]

\* a faulty variant: a cancelled order keeps its payment status
StatusUpdated_KeepsPaid(order, status) == [order EXCEPT !.status = status]

\* a faulty variant: every change of status resets a paid order to pending
StatusUpdated_AlwaysResets(order, status) ==
    [order EXCEPT !.status = status,
                  !.paymentStatus =
                      IF order.paymentStatus = "paid"
                      THEN "pending" ELSE order.paymentStatus]

\* order.status = status, and the reset of a paid order that is cancelled
StatusUpdated(order, status) ==
    [order EXCEPT !.status = status,
                  !.paymentStatus =
                      IF status = "cancelled" /\ order.paymentStatus = "paid"
                      THEN "pending" ELSE order.paymentStatus]

\* updateOrderStatusController
UpdateStatus(n, status) ==
    LET R(result, code) == Resp("UpdateStatus", OrderNumber(n), result, code, NoBody)
    IN
    /\ UNCHANGED <<carts, products, now, nextItemId, reqs, cartDocs>>
    /\ IF status \notin ValidStatuses
       THEN /\ last' = R("ValidationError", 400)
            /\ UNCHANGED orders
       ELSE IF orders[n] = NoOrder
       THEN /\ last' = R("NotFound", 404)
            /\ UNCHANGED orders
       ELSE /\ orders' = [orders EXCEPT ![n] = StatusUpdated(orders[n], status)]
            /\ last' = OrderResp("UpdateStatus", n, "ok", 200)

\* a faulty variant: a paid order stays pending
PaymentStatusUpdated_NoAdvance(order, paymentStatus) ==
    [order EXCEPT !.paymentStatus = paymentStatus]

\* order.paymentStatus = paymentStatus, and the advance of a pending order
\* that is paid
PaymentStatusUpdated(order, paymentStatus) ==
    [order EXCEPT !.paymentStatus = paymentStatus,
                  !.status =
                      IF paymentStatus = "paid" /\ order.status = "pending"
                      THEN "processing" ELSE order.status]

\* updatePaymentStatusController; order.save() validates paymentStatus against
\* the enum of the schema
UpdatePaymentStatus(n, paymentStatus) ==
    LET R(result, code) ==
            Resp("UpdatePaymentStatus", OrderNumber(n), result, code, NoBody)
    IN
    /\ UNCHANGED <<carts, products, now, nextItemId, reqs, cartDocs>>
    /\ IF paymentStatus \notin ValidPaymentStatuses
       THEN /\ last' = R("ValidationError", 400)
            /\ UNCHANGED orders
       ELSE IF orders[n] = NoOrder
       THEN /\ last' = R("NotFound", 404)
            /\ UNCHANGED orders
       ELSE IF paymentStatus \notin SchemaPaymentStatuses
       THEN /\ last' = OrderResp("UpdatePaymentStatus", n, "Failed", 500)
            /\ UNCHANGED orders
       ELSE /\ orders' = [orders EXCEPT ![n] =
                            PaymentStatusUpdated(orders[n], paymentStatus)]
            /\ last' = OrderResp("UpdatePaymentStatus", n, "ok", 200)

\* the requests of the order controllers
ConversionRequest ==
    \E s \in SessionInputs, customer \in CustomerInputs,
       paymentMethod \in PaymentMethodInputs, shipping \in ShippingInputs,
       stamp \in StampInputs, deleteFails \in BOOLEAN :
       CreateOrder(s, customer, paymentMethod, shipping, stamp, deleteFails)

OrderRequest ==
    \/ ConversionRequest
    \/ \E n \in 1..MaxOrders, status \in StatusInputs : UpdateStatus(n, status)
    \/ \E n \in 1..MaxOrders, paymentStatus \in PaymentStatusInputs :
          UpdatePaymentStatus(n, paymentStatus)

Next ==
    \/ Tick
    \/ CartRequest
    \/ AdminRequest

Spec == Init /\ [][Next]_vars

\* The same controllers started from a database in which session s1 already
\* filled its cart to the limit of MAX_ITEMS_PER_CART lines: one AddItem of
\* product p2 and then one AddItem of p1 per variant, at hour 0.
InitFull ==
    /\ carts = [s \in Sessions |-> IF s = "s1" THEN FilledCart(s) ELSE NoCart]
    /\ products = InitProducts
    /\ now = 0
    /\ nextItemId = 1
    /\ last = Resp("Init", NoSession, "ok", 0, NoBody)
    /\ orders = NoOrders
    /\ reqs = IdleReqs
    /\ cartDocs = <<>>

SpecFull == InitFull /\ [][CartRequest]_vars

\* ------------------------------------------------- orders: specifications
\* a cart of two lines, as two AddItem requests at hour 0 leave it
OrderItems ==
    <<[id |-> FillerId(1), product |-> "p1", variant |-> NoVariant,
       quantity |-> 2, price |-> 1999],
      [id |-> FillerId(2), product |-> "p2", variant |-> NoVariant,
       quantity |-> 1, price |-> 500]>>

OrderCart(s, items) ==
    [sessionId |-> s, items |-> items, totals |-> calculateCartTotals(items),
     status |-> "active", updatedAt |-> 0]

\* The cart and order controllers on a database in which session s1 holds a
\* cart of two lines.
InitOrders ==
    /\ carts = [s \in Sessions |->
                  IF s = "s1" THEN OrderCart(s, OrderItems) ELSE NoCart]
    /\ products = InitProducts
    /\ now = 0
    /\ nextItemId = 1
    /\ last = Resp("Init", NoSession, "ok", 0, NoBody)
    /\ orders = NoOrders
    /\ reqs = IdleReqs
    /\ cartDocs = <<>>

\* the cart requests that surround an order conversion
OrderCartRequest ==
    \/ \E s \in Sessions : Create(s)
    \/ \E s \in Sessions : Get(s)
    \/ \E s \in Sessions, t \in Sessions : Merge(s, t)

NextOrders ==
    \/ Tick
    \/ OrderCartRequest
    \/ ConversionRequest

SpecOrders == InitOrders /\ [][NextOrders]_vars

\* The order controllers alone on the same database: conversions and the
\* status and payment status updates of the orders they leave.
SpecOrderStatus == InitOrders /\ [][OrderRequest]_vars

\* Price changes of product p1 among requests that add to the cart of
\* session s1 and convert it to an order.
NextPrices ==
    \/ \E p \in AdminProducts, price \in PriceInputs : UpdateProductPrice(p, price)
    \/ \E s \in Sessions, p \in ProductInputs, q \in QuantityInputs,
          v \in VariantInputs : AddItem(s, p, q, v)
    \/ ConversionRequest

SpecPrices == InitOrders /\ [][NextPrices]_vars

\* Changes of the quantity of a line and removals of lines of the cart of
\* session s1, while the administrator edits product p1 and time passes.
NextItems ==
    \/ Tick
    \/ \E s \in Sessions, i \in ItemIdInputs, q \in QuantityInputs :
          UpdateItemQuantity(s, i, q)
    \/ \E s \in Sessions, i \in ItemIdInputs : RemoveItem(s, i)
    \/ AdminRequest

SpecItems == InitOrders /\ [][NextItems]_vars

\* The requests that change the lines of a cart, on the two-line cart of
\* session s1 and carts created next to it.
NextLines ==
    \/ \E s \in Sessions : Create(s)
    \/ \E s \in Sessions, p \in ProductInputs, q \in QuantityInputs,
          v \in VariantInputs : AddItem(s, p, q, v)
    \/ \E s \in Sessions, i \in ItemIdInputs, q \in QuantityInputs :
          UpdateItemQuantity(s, i, q)
    \/ \E s \in Sessions, i \in ItemIdInputs : RemoveItem(s, i)
    \/ \E s \in Sessions : Clear(s)
    \/ \E s \in Sessions, t \in Sessions : Merge(s, t)

SpecLines == InitOrders /\ [][NextLines]_vars

\* inventory values that leave 10 and 6 units of a product available
StockInputs ==
    { [quantity |-> 10, reserved |-> 0],
      [quantity |-> 10, reserved |-> 4] }

\* Additions to the lines of the cart of session s1 and changes of their
\* quantity, while the administrator changes the inventory of product p1.
NextStock ==
    \/ \E p \in AdminProducts, inv \in StockInputs : UpdateInventory(p, inv)
    \/ \E s \in Sessions, p \in ProductInputs, q \in QuantityInputs,
          v \in VariantInputs : AddItem(s, p, q, v)
    \/ \E s \in Sessions, i \in ItemIdInputs, q \in QuantityInputs :
          UpdateItemQuantity(s, i, q)

SpecStock == InitOrders /\ [][NextStock]_vars

\* createOrderController as the steps between its awaits, for requests that
\* are handled at the same time.

\* validation and Cart.findOne({ sessionId })
BeginOrder(r, s, customer, paymentMethod, shipping) ==
    LET R(result, code) == Resp("CreateOrder", s, result, code, NoBody)
    IN
    /\ reqs[r].pc = "idle"
    /\ UNCHANGED <<carts, products, now, nextItemId, orders, cartDocs>>
    /\ IF MissingFields(s, customer, paymentMethod, shipping)
       THEN /\ last' = R("BadRequest", 400)
            /\ UNCHANGED reqs
       ELSE IF carts[s] = NoCart \/ Len(carts[s].items) = 0
       THEN /\ last' = R("NotFound", 404)
            /\ UNCHANGED reqs
       ELSE /\ reqs' = [reqs EXCEPT ![r] =
                    [pc |-> "found", session |-> s, customer |-> customer,
                     paymentMethod |-> paymentMethod, shipping |-> shipping,
                     items |-> carts[s].items]]
            /\ UNCHANGED last

\* Order.create
InsertOrder(r, stamp) ==
    LET q == reqs[r]
        R(result, code) == Resp("CreateOrder", q.session, result, code, NoBody)
    IN
    /\ q.pc = "found"
    /\ UNCHANGED <<carts, products, now, nextItemId, cartDocs>>
    /\ IF OrderRejected(stamp, q.shipping)
       THEN /\ last' = R("Failed", 500)
            /\ reqs' = [reqs EXCEPT ![r] = IdleRequest]
            /\ UNCHANGED orders
       ELSE /\ orders' = [orders EXCEPT ![stamp] =
                    NewOrder(stamp, q.customer, q.paymentMethod, q.shipping,
                             q.items)]
            /\ reqs' = [reqs EXCEPT ![r].pc = "created"]
            /\ UNCHANGED last

\* Cart.findOneAndDelete({ sessionId }) and the response
RemoveCart(r, deleteFails) ==
    LET q == reqs[r]
        R(result, code) == Resp("CreateOrder", q.session, result, code, NoBody)
    IN
    /\ q.pc = "created"
    /\ UNCHANGED <<products, now, nextItemId, orders, cartDocs>>
    /\ reqs' = [reqs EXCEPT ![r] = IdleRequest]
    /\ IF deleteFails
       THEN /\ last' = R("Failed", 500)
            /\ UNCHANGED carts
       ELSE /\ carts' = CartDeleted(q.session)
            /\ last' = R("ok", 201)

\* Two sessions, each with a cart of its own lines.
InitOrderRace ==
    /\ carts = [s \in Sessions |->
                  IF s = "s1" THEN OrderCart(s, OrderItems)
                  ELSE OrderCart(s, SubSeq(OrderItems, 1, 1))]
    /\ products = InitProducts
    /\ now = 0
    /\ nextItemId = 1
    /\ last = Resp("Init", NoSession, "ok", 0, NoBody)
    /\ orders = NoOrders
    /\ reqs = IdleReqs
    /\ cartDocs = <<>>

NextOrderRace ==
    \/ \E r \in Requests, s \in SessionInputs, customer \in CustomerInputs,
          paymentMethod \in PaymentMethodInputs, shipping \in ShippingInputs :
          BeginOrder(r, s, customer, paymentMethod, shipping)
    \/ \E r \in Requests, stamp \in StampInputs : InsertOrder(r, stamp)
    \/ \E r \in Requests, deleteFails \in BOOLEAN : RemoveCart(r, deleteFails)

SpecOrderRace == InitOrderRace /\ [][NextOrderRace]_vars

\* ---------------------------------------------------------------- cart races
\* createCartController and addCartItemController as the steps between their
\* awaits, for requests that are handled at the same time.  Here the Cart
\* collection is the list cartDocs of its documents in insertion order (the
\* position of a document stands for its _id), each with the version key __v
\* that Mongoose keeps for its arrays.

\* the quantities the racing AddItem requests ask for
RaceQuantityInputs == {3, 11}

\* the document Cart.create stores
NewDoc(s) ==
    [sessionId |-> s, items |-> <<>>, status |-> "active",
     totals |-> ZeroTotals, updatedAt |-> NoDate, v |-> 0]

\* Cart.findOne({ sessionId }): the position of the first match, 0 for null
FindDoc(docs, s) ==
    FirstOf({i \in 1..Len(docs) : docs[i].sessionId = s})

\* a faulty variant: the collection has no unique index
DuplicateKey_NoIndex(docs, s) == FALSE

\* the unique index on sessionId refuses a second document for a session
DuplicateKey(docs, s) == FindDoc(docs, s) > 0

\* a faulty variant: the quantity is added to what is stored
SavedDoc_Increments(stored, memory, index, quantity) ==
    IF index > 0
    THEN [stored EXCEPT !.items[index].quantity = @ + quantity,
                        !.totals = memory.totals,
                        !.updatedAt = memory.updatedAt]
    ELSE [stored EXCEPT !.items = Append(@, memory.items[Len(memory.items)]),
                        !.totals = memory.totals,
                        !.updatedAt = memory.updatedAt,
                        !.v = @ + 1]

\* cart.save() of the document addCartItemController changed in memory: the
\* paths it modified are written, not the document.  A changed line is a $set
\* of items.<index>.quantity, a new line a $push that increments __v; totals
\* and updatedAt are a $set.
SavedDoc(stored, memory, index, quantity) ==
    IF index > 0
    THEN [stored EXCEPT !.items[index].quantity = memory.items[index].quantity,
                        !.totals = memory.totals,
                        !.updatedAt = memory.updatedAt]
    ELSE [stored EXCEPT !.items = Append(@, memory.items[Len(memory.items)]),
                        !.totals = memory.totals,
                        !.updatedAt = memory.updatedAt,
                        !.v = @ + 1]

\* a request slot is free when nothing is in progress in it; "done" keeps what
\* the last AddItem answered with success had read and asked for
Free(r) == reqs[r].pc \in {"idle", "done"}

\* createCartController: validation and Cart.findOne({ sessionId })
BeginCreate(r, s) ==
    LET R(result, code) == Resp("Create", s, result, code, NoBody)
        found == FindDoc(cartDocs, s)
    IN
    /\ Free(r)
    /\ UNCHANGED <<carts, products, now, nextItemId, orders, cartDocs>>
    /\ IF s = NoSession
       THEN /\ last' = R("ValidationError", 400)
            /\ reqs' = [reqs EXCEPT ![r] = IdleRequest]
       ELSE IF found > 0 /\ ~isCartExpired(cartDocs[found], now)
       THEN /\ last' = R("Conflict", 400)
            /\ reqs' = [reqs EXCEPT ![r] = IdleRequest]
       ELSE IF found > 0
       THEN /\ reqs' = [reqs EXCEPT ![r] =
                    [pc |-> "expire", session |-> s, doc |-> found]]
            /\ UNCHANGED last
       ELSE /\ reqs' = [reqs EXCEPT ![r] = [pc |-> "insert", session |-> s]]
            /\ UNCHANGED last

\* createCartController: Cart.findByIdAndUpdate of the expired cart
ExpireFound(r) ==
    LET q == reqs[r]
    IN
    /\ q.pc = "expire"
    /\ UNCHANGED <<carts, products, now, nextItemId, orders, last>>
    /\ cartDocs' = [cartDocs EXCEPT ![q.doc].status = "expired",
                                    ![q.doc].updatedAt = now]
    /\ reqs' = [reqs EXCEPT ![r] = [pc |-> "insert", session |-> q.session]]

\* createCartController: Cart.create and the response
InsertCart(r) ==
    LET q == reqs[r]
        R(result, code) == Resp("Create", q.session, result, code, NoBody)
    IN
    /\ q.pc = "insert"
    /\ UNCHANGED <<carts, products, now, nextItemId, orders>>
    /\ reqs' = [reqs EXCEPT ![r] = IdleRequest]
    /\ IF DuplicateKey(cartDocs, q.session)
       THEN /\ last' = R("DuplicateKey", 500)
            /\ UNCHANGED cartDocs
       ELSE /\ cartDocs' = Append(cartDocs, NewDoc(q.session))
            /\ last' = R("ok", 201)

\* addCartItemController up to its cart.save(): the validation, the reads of
\* the cart and of the product (no step of this specification changes a
\* product) and the change of the document in memory.  The save of an expired
\* cart writes its status only and is taken with the read.
BeginAddItem(r, s, productId, quantity, variantId) ==
    LET R(result, code) == Resp("AddItem", s, result, code, NoBody)
        found == FindDoc(cartDocs, s)
        cart == cartDocs[found]
        product == products[productId]
        index == FindLineIndex(cart.items, productId, variantId)
        Fail(result, code) ==
            /\ last' = R(result, code)
            /\ reqs' = [reqs EXCEPT ![r] = IdleRequest]
            /\ UNCHANGED <<cartDocs, nextItemId>>
    IN
    /\ Free(r)
    /\ UNCHANGED <<carts, products, now, orders>>
    /\ IF productId = NoProductId THEN Fail("ValidationError", 400)
       ELSE IF InvalidQuantity(quantity) THEN Fail("ValidationError", 400)
       ELSE IF found = 0 THEN Fail("NotFound", 404)
       ELSE IF isCartExpired(cart, now)
       THEN /\ cartDocs' = [cartDocs EXCEPT ![found] = Expire(cart)]
            /\ last' = R("Expired", 400)
            /\ reqs' = [reqs EXCEPT ![r] = IdleRequest]
            /\ UNCHANGED nextItemId
       ELSE IF cart.status # "active" THEN Fail("Conflict", 400)
       ELSE IF CartIsFull(cart.items) THEN Fail("LimitExceeded", 400)
       ELSE IF product = NoProduct THEN Fail("NotFound", 404)
       ELSE IF ~product.isActive THEN Fail("Unavailable", 404)
       ELSE IF InsufficientInventory(product, quantity)
       THEN Fail("InsufficientInventory", 400)
       ELSE IF index > 0 /\ ExceedsQuantity(cart.items[index].quantity + quantity)
       THEN Fail("LimitExceeded", 400)
       ELSE /\ index = 0 => nextItemId <= MaxItemIds
            /\ reqs' = [reqs EXCEPT ![r] =
                    [pc |-> "save", session |-> s, doc |-> found,
                     index |-> index, quantity |-> quantity,
                     memory |-> AddedCart(cart, index, productId, variantId,
                                          quantity, product.price, nextItemId,
                                          now)]]
            /\ nextItemId' = IF index > 0 THEN nextItemId ELSE nextItemId + 1
            /\ UNCHANGED <<cartDocs, last>>

\* addCartItemController: cart.save() and the response.  The update of a
\* changed line carries the __v the document was read with and fails when the
\* stored document has another.
SaveItem(r) ==
    LET q == reqs[r]
        stored == cartDocs[q.doc]
        R(result, code) == Resp("AddItem", q.session, result, code, NoBody)
    IN
    /\ q.pc = "save"
    /\ UNCHANGED <<carts, products, now, nextItemId, orders>>
    /\ IF q.index > 0 /\ stored.v # q.memory.v
       THEN /\ last' = R("Failed", 500)
            /\ reqs' = [reqs EXCEPT ![r] = IdleRequest]
            /\ UNCHANGED cartDocs
       ELSE /\ cartDocs' = [cartDocs EXCEPT ![q.doc] =
                    SavedDoc(stored, q.memory, q.index, q.quantity)]
            /\ last' = R("ok", 200)
            /\ reqs' = [reqs EXCEPT ![r] =
                    [pc |-> "done", session |-> q.session, doc |-> q.doc,
                     index |-> q.index, quantity |-> q.quantity,
                     seen |-> IF q.index > 0
                              THEN q.memory.items[q.index].quantity - q.quantity
                              ELSE 0]]

\* Session s1 holds a cart with one line; session s2 has no cart.
InitCartRace ==
    /\ carts = [s \in Sessions |-> NoCart]
    /\ products = InitProducts
    /\ now = 0
    /\ nextItemId = 1
    /\ last = Resp("Init", NoSession, "ok", 0, NoBody)
    /\ orders = NoOrders
    /\ reqs = IdleReqs
    /\ cartDocs = <<[sessionId |-> "s1", items |-> SubSeq(OrderItems, 1, 1),
                     totals |-> calculateCartTotals(SubSeq(OrderItems, 1, 1)),
                     status |-> "active", updatedAt |-> 0, v |-> 0]>>

NextCartRace ==
    \/ Tick
    \/ \E r \in Requests, s \in SessionInputs : BeginCreate(r, s)
    \/ \E r \in Requests : ExpireFound(r)
    \/ \E r \in Requests : InsertCart(r)
    \/ \E r \in Requests, s \in Sessions, p \in ProductInputs,
          q \in RaceQuantityInputs : BeginAddItem(r, s, p, q, NoVariant)
    \/ \E r \in Requests : SaveItem(r)

SpecCartRace == InitCartRace /\ [][NextCartRace]_vars



\* ===================================================================== claims
\* vocabulary of the claims, stated without the operators of the model

\* the cart of session s is stored
HasCart(s) == carts[s] # NoCart

\* the cart of s was last updated more than 24 hours before the current time
Stale(s) ==
    /\ HasCart(s)
    /\ carts[s].updatedAt # NoDate
    /\ now - carts[s].updatedAt > 24

\* quantities and products a request may carry according to its signature
ValidQuantities == {q \in QuantityInputs : 1 <= q /\ q <= 10}
RequestedProducts == ProductInputs \ {NoProductId}

\* the step is the handling of a request within the signature of the operation
IsAddItem(s) ==
    /\ last'.op = "AddItem" /\ last'.session = s
    /\ \E p \in RequestedProducts, q \in ValidQuantities, v \in VariantInputs :
          AddItem(s, p, q, v)
IsUpdateItemQuantity(s) ==
    /\ last'.op = "UpdateItemQuantity" /\ last'.session = s
    /\ \E i \in ItemIdInputs, q \in ValidQuantities : UpdateItemQuantity(s, i, q)
IsRemoveItem(s) ==
    /\ last'.op = "RemoveItem" /\ last'.session = s
    /\ \E i \in ItemIdInputs : RemoveItem(s, i)
IsGet(s) == last'.op = "Get" /\ last'.session = s /\ Get(s)
IsClear(s) == last'.op = "Clear" /\ last'.session = s /\ Clear(s)
IsCreate(s) == last'.op = "Create" /\ last'.session = s /\ Create(s)

\* C1: every persisted cart has at most 50 items and every item has a
\* quantity between 1 and 10, whatever requests were handled.
C1_CartLimits ==
    \A s \in Sessions :
        HasCart(s) =>
            /\ Len(carts[s].items) <= 50
            /\ \A i \in 1..Len(carts[s].items) :
                  /\ 1 <= carts[s].items[i].quantity
                  /\ carts[s].items[i].quantity <= 10

\* a cart that holds exactly 50 lines, one of them with quantity 10
C1_Witness ==
    \E s \in Sessions :
        /\ HasCart(s)
        /\ Len(carts[s].items) = 50
        /\ \E i \in 1..Len(carts[s].items) : carts[s].items[i].quantity = 10

\* the Totals Calculator of the cart context as the specification states it:
\* subtotal = sum of price * quantity, tax = 10% of it, total = subtotal + tax,
\* each rounded half up to the cent
RECURSIVE ClaimSubtotal(_, _)
ClaimSubtotal(items, n) ==
    IF n = 0 THEN 0
    ELSE items[n].price * items[n].quantity + ClaimSubtotal(items, n - 1)

ClaimTotals(items) ==
    LET subtotal == ClaimSubtotal(items, Len(items))
    IN  [subtotal |-> subtotal,
         tax |-> (subtotal + 5) \div 10,
         total |-> (11 * subtotal + 5) \div 10]

\* C2: at rest, the persisted totals of every cart equal the Totals Calculator
\* applied to the persisted items of that cart.
C2_TotalsMatchItems ==
    \A s \in Sessions :
        HasCart(s) => carts[s].totals = ClaimTotals(carts[s].items)

\* a request that changed the items of a cart was completed and the cart
\* holds lines with a non-zero total
C2_Witness ==
    /\ last.op \in {"AddItem", "UpdateItemQuantity", "Merge"}
    /\ last.result = "ok"
    /\ HasCart(last.session)
    /\ carts[last.session].items # <<>>
    /\ carts[last.session].totals.tax > 0

\* C3: on a cart updated more than 24 hours ago, the next Get, AddItem,
\* UpdateItemQuantity, RemoveItem or Clear (called within its signature) fails
\* with Expired, leaves items and totals unchanged and leaves the cart
\* persisted with status expired.
C3_ExpiredOnAccess ==
    [][\A s \in Sessions :
          ( /\ Stale(s)
            /\ \/ IsGet(s) \/ IsAddItem(s) \/ IsUpdateItemQuantity(s)
               \/ IsRemoveItem(s) \/ IsClear(s) )
          => /\ last'.result = "Expired"
             /\ HasCart(s)'
             /\ carts'[s].status = "expired"
             /\ carts'[s].items = carts[s].items
             /\ carts'[s].totals = carts[s].totals]_vars

\* a request was refused with Expired on a cart that holds a line and is now
\* persisted as expired
C3_Witness ==
    /\ last.op \in {"Get", "AddItem", "UpdateItemQuantity", "RemoveItem", "Clear"}
    /\ last.result = "Expired"
    /\ Stale(last.session)
    /\ carts[last.session].status = "expired"
    /\ carts[last.session].items # <<>>

\* C4 (as claimed): Create for a session whose cart was updated more than 24
\* hours ago succeeds and leaves the session with a new active cart with no
\* items and zero totals.
C4_CreateAfterExpiry ==
    [][\A s \in Sessions :
          (Stale(s) /\ IsCreate(s))
          => /\ last'.result = "ok"
             /\ HasCart(s)'
             /\ carts'[s].status = "active"
             /\ carts'[s].items = <<>>
             /\ carts'[s].totals = [subtotal |-> 0, tax |-> 0, total |-> 0]]_vars

\* C5: Create fails with Conflict, and creates or changes no cart, whenever an
\* active cart that is not older than 24 hours exists for the session.
C5_CreateConflict ==
    [][\A s \in Sessions :
          ( /\ HasCart(s)
            /\ carts[s].status = "active"
            /\ ~Stale(s)
            /\ IsCreate(s) )
          => /\ last'.result = "Conflict"
             /\ carts' = carts]_vars

\* a Create was refused with Conflict for a session with an active cart
C5_Witness ==
    /\ last.op = "Create"
    /\ last.result = "Conflict"
    /\ HasCart(last.session)
    /\ carts[last.session].status = "active"
    /\ ~Stale(last.session)

\* C6 (as claimed): after a successful Get the cart holds no item whose
\* product is missing, is inactive, or has fewer units on hand than the item
\* asks for (the cart returned is the one persisted).
C6_GetDropsUnavailable ==
    (last.op = "Get" /\ last.result = "ok")
    => \A i \in 1..Len(carts[last.session].items) :
          LET item == carts[last.session].items[i]
          IN  /\ products[item.product] # NoProduct
              /\ products[item.product].isActive
              /\ products[item.product].quantity >= item.quantity

\* the request passes every check addCartItemController makes before it reads
\* the inventory: the cart exists, is not older than 24 hours, is active and
\* holds fewer than 50 lines, and the product exists and is active
ReachesInventoryCheck(s, p) ==
    /\ HasCart(s)
    /\ ~Stale(s)
    /\ carts[s].status = "active"
    /\ Len(carts[s].items) < 50
    /\ products[p] # NoProduct
    /\ products[p].isActive

\* items, totals and updatedAt of every cart are what they were
CartContentsUnchanged ==
    \A t \in Sessions :
        HasCart(t) =>
            /\ HasCart(t)'
            /\ carts'[t].items = carts[t].items
            /\ carts'[t].totals = carts[t].totals
            /\ carts'[t].updatedAt = carts[t].updatedAt

\* C7: AddItem with a requested quantity greater than inventory.quantity -
\* inventory.reserved never succeeds and changes no items, totals or
\* updatedAt; when the request reaches the inventory check it fails with
\* InsufficientInventory and the persisted carts (status included) are unchanged.
C7_InsufficientInventory ==
    [][\A s \in Sessions, p \in RequestedProducts, q \in ValidQuantities,
          v \in VariantInputs :
          ( /\ last'.op = "AddItem" /\ last'.session = s
            /\ products[p] # NoProduct
            /\ q > products[p].quantity - products[p].reserved
            /\ AddItem(s, p, q, v) )
          => /\ last'.result # "ok"
             /\ CartContentsUnchanged
             /\ ReachesInventoryCheck(s, p)
                => /\ last'.result = "InsufficientInventory"
                   /\ carts' = carts]_vars

\* an AddItem was refused with InsufficientInventory although the units on
\* hand would cover it, on an active cart
C7_Witness ==
    /\ last.op = "AddItem"
    /\ last.result = "InsufficientInventory"
    /\ HasCart(last.session)
    /\ carts[last.session].status = "active"
    /\ \E p \in Products :
          /\ products[p] # NoProduct
          /\ products[p].reserved > 0
          /\ products[p].quantity >= 5

\* the lines of product p and variant v
ExactLines(items, p, v) ==
    {i \in 1..Len(items) : items[i].product = p /\ items[i].variant = v}

\* C8: AddItem of quantity q for a product+variant whose line has quantity p
\* with p + q > 10 never succeeds and leaves the lines as they are (no
\* clamping); when the request passes the earlier checks it fails with
\* LimitExceeded and the persisted carts are unchanged.
C8_QuantityLimit ==
    [][\A s \in Sessions, p \in RequestedProducts, q \in ValidQuantities,
          v \in VariantInputs :
          ( /\ last'.op = "AddItem" /\ last'.session = s
            /\ HasCart(s)
            /\ \E i \in ExactLines(carts[s].items, p, v) :
                  carts[s].items[i].quantity + q > 10
            /\ AddItem(s, p, q, v) )
          => /\ last'.result # "ok"
             /\ carts'[s].items = carts[s].items
             /\ ( /\ ReachesInventoryCheck(s, p)
                  /\ q <= products[p].quantity - products[p].reserved )
                => /\ last'.result = "LimitExceeded"
                   /\ carts' = carts]_vars

\* an AddItem was refused with LimitExceeded on a cart that is not full and
\* holds a line of quantity 10
C8_Witness ==
    /\ last.op = "AddItem"
    /\ last.result = "LimitExceeded"
    /\ HasCart(last.session)
    /\ Len(carts[last.session].items) < 50
    /\ \E i \in 1..Len(carts[last.session].items) :
          carts[last.session].items[i].quantity = 10

\* C9 (as claimed): a successful AddItem(p, q, v) adds q to the line of the
\* same product and the same variant when there is one, and otherwise appends
\* one line with quantity q and the current price of the product; every other
\* line stays as it is.
C9_AddMergesSameVariantOnly ==
    [][\A s \in Sessions, p \in RequestedProducts, q \in ValidQuantities,
          v \in VariantInputs :
          ( /\ last'.op = "AddItem" /\ last'.session = s
            /\ last'.result = "ok"
            /\ AddItem(s, p, q, v) )
          => LET old == carts[s].items
                 new == carts'[s].items
                 exact == ExactLines(old, p, v)
             IN  IF exact # {}
                 THEN \E i \in exact :
                         new = [old EXCEPT ![i].quantity = old[i].quantity + q]
                 ELSE /\ Len(new) = Len(old) + 1
                      /\ SubSeq(new, 1, Len(old)) = old
                      /\ new[Len(new)].product = p
                      /\ new[Len(new)].variant = v
                      /\ new[Len(new)].quantity = q
                      /\ new[Len(new)].price = products[p].price]_vars

\* the merge as the specification states it: a source item is matched with the
\* target line of the same product and the same variant
ClaimMergeOne(targetItems, sourceItem) ==
    LET exact == ExactLines(targetItems, sourceItem.product, sourceItem.variant)
    IN  IF exact # {}
        THEN LET i == CHOOSE i \in exact : \A j \in exact : i <= j
             IN  [targetItems EXCEPT ![i].quantity =
                    IF targetItems[i].quantity + sourceItem.quantity < 10
                    THEN targetItems[i].quantity + sourceItem.quantity
                    ELSE 10]
        ELSE IF Len(targetItems) >= 50 THEN targetItems
        ELSE Append(targetItems, sourceItem)

RECURSIVE ClaimMergeFrom(_, _, _)
ClaimMergeFrom(targetItems, sourceItems, k) ==
    IF k > Len(sourceItems) THEN targetItems
    ELSE LET next == ClaimMergeOne(targetItems, sourceItems[k])
         IN  IF Len(next) >= 0 THEN ClaimMergeFrom(next, sourceItems, k + 1)
             ELSE next

\* C10 (as claimed): a Merge of two active carts never fails; a source item
\* with a target line of the same product and variant raises that line to
\* min(sum, 10), any other source item is appended, or skipped when the target
\* holds 50 lines.
C10_MergeClampsAndSkips ==
    [][\A s \in Sessions, t \in Sessions :
          ( /\ last'.op = "Merge"
            /\ HasCart(s) /\ carts[s].status = "active"
            /\ HasCart(t) /\ carts[t].status = "active"
            /\ Merge(s, t) )
          => /\ last'.result = "ok"
             /\ carts'[t].items =
                    ClaimMergeFrom(carts[t].items, carts[s].items, 1)]_vars

\* C11 (as claimed): Merge succeeds only when the source cart and the target
\* cart are active; after a successful Merge the source cart is merged and the
\* target cart is still active; a cart that is not active stays so, and every
\* AddItem, UpdateItemQuantity, RemoveItem or Clear on its session fails and
\* leaves its items as they are.
C11_MergeRetiresSource ==
    [][/\ \A s \in Sessions, t \in Sessions :
            (last'.op = "Merge" /\ last'.result = "ok" /\ Merge(s, t))
            => /\ HasCart(s) /\ carts[s].status = "active"
               /\ HasCart(t) /\ carts[t].status = "active"
               /\ carts'[s].status = "merged"
               /\ carts'[t].status = "active"
       /\ \A s \in Sessions :
            (HasCart(s) /\ carts[s].status # "active")
            => /\ HasCart(s)'
               /\ carts'[s].status # "active"
               /\ ( \/ IsAddItem(s) \/ IsUpdateItemQuantity(s)
                    \/ IsRemoveItem(s) \/ IsClear(s) )
                  => /\ last'.result # "ok"
                     /\ carts'[s].items = carts[s].items]_vars

\* C12: every order CreateOrder produces holds the items of the cart of its
\* session, a subtotal equal to the sum of price x quantity over them, a tax of
\* 9% of the subtotal, and total = subtotal + tax + shipping.cost.  For items
\* of 10.00 x 2 and 5.00 x 1 and a shipping cost of 3.00 the amounts are 25,
\* 2.25 and 30.25 (here in hundredths of a cent).
C12_OrderTotals ==
    [][\A n \in 1..MaxOrders :
          (orders[n] = NoOrder /\ orders'[n] # NoOrder)
          => LET order == orders'[n]
                 s == last'.session
                 cents == ClaimSubtotal(order.items, Len(order.items))
             IN  /\ last'.op = "CreateOrder"
                 /\ order.items = carts[s].items
                 /\ order.subtotal = 100 * cents
                 /\ 100 * order.tax = 9 * order.subtotal
                 /\ order.total =
                        order.subtotal + order.tax + 100 * order.shipping.cost
                 /\ OrderTotals(<<[price |-> 1000, quantity |-> 2],
                                  [price |-> 500, quantity |-> 1]>>,
                                [cost |-> 300])
                    = [subtotal |-> 250000, tax |-> 22500, total |-> 302500]]_vars

\* a CreateOrder has left an order for the cart of two lines: 44.98 of goods,
\* 4.0482 of tax, 3.00 of shipping
C12_Witness ==
    /\ last.op = "CreateOrder"
    /\ last.result = "ok"
    /\ \E n \in 1..MaxOrders :
          /\ orders[n] # NoOrder
          /\ Len(orders[n].items) = 2
          /\ orders[n].subtotal = 449800
          /\ orders[n].tax = 40482
          /\ orders[n].total = 520282

\* the step is the handling of a CreateOrder request for session s
IsCreateOrder(s) ==
    /\ last'.op = "CreateOrder" /\ last'.session = s
    /\ \E customer \in CustomerInputs, paymentMethod \in PaymentMethodInputs,
          shipping \in ShippingInputs, stamp \in StampInputs,
          deleteFails \in BOOLEAN :
          CreateOrder(s, customer, paymentMethod, shipping, stamp, deleteFails)

\* C13 (as claimed): CreateOrder creates no order for a session whose cart has
\* status expired or merged, or was updated more than 24 hours ago.
C13_OrderOnlyFromActiveCart ==
    [][\A s \in Sessions :
          ( /\ HasCart(s)
            /\ \/ carts[s].status \in {"expired", "merged"}
               \/ Stale(s)
            /\ IsCreateOrder(s) )
          => orders' = orders]_vars

\* C14 (as claimed): when CreateOrder has persisted its order and the deletion
\* of the cart then fails, the order stays persisted and the request is still
\* answered with the created order (201), not with a failure.
C14_DeleteFailureNotRaised ==
    [][\A s \in Sessions, customer \in CustomerInputs,
          paymentMethod \in PaymentMethodInputs, shipping \in ShippingInputs,
          stamp \in StampInputs :
          ( /\ last'.op = "CreateOrder" /\ last'.session = s
            /\ orders' # orders
            /\ CreateOrder(s, customer, paymentMethod, shipping, stamp, TRUE) )
          => /\ orders'[stamp] # NoOrder
             /\ carts' = carts
             /\ last'.result = "ok"
             /\ last'.code = 201]_vars

\* the request before this one was a CreateOrder for session s that succeeded
JustConverted(s) ==
    last.op = "CreateOrder" /\ last.session = s /\ last.result = "ok"

\* C15: after a successful CreateOrder no cart exists for its session: a Get
\* that follows fails with NotFound, and a Create that follows succeeds and
\* leaves an active cart without items.
C15_CartGoneAfterOrder ==
    [][\A s \in Sessions :
          /\ (IsCreateOrder(s) /\ last'.result = "ok") => ~HasCart(s)'
          /\ (JustConverted(s) /\ IsGet(s)) => last'.result = "NotFound"
          /\ (JustConverted(s) /\ IsCreate(s))
             => /\ last'.result = "ok"
                /\ HasCart(s)'
                /\ carts'[s].status = "active"
                /\ carts'[s].items = <<>>]_vars

\* session s1, whose cart became an order, has been given a new empty cart
C15_Witness ==
    /\ last.op = "Create"
    /\ last.session = "s1"
    /\ last.result = "ok"
    /\ orders[1] # NoOrder
    /\ HasCart("s1")
    /\ carts["s1"].items = <<>>

\* C16 (as claimed): at most one order is ever created from a cart, also when
\* CreateOrder requests for its session are handled at the same time.  (No
\* step of SpecOrderRace changes the lines of a cart and the two carts hold
\* different lines, so the items of an order name the cart it was made from.)
C16_OneOrderPerCart ==
    \A m \in 1..MaxOrders, n \in 1..MaxOrders :
        (m # n /\ orders[m] # NoOrder /\ orders[n] # NoOrder)
        => orders[m].items # orders[n].items

\* C17: CreateOrder fails with BadRequest when sessionId, customer,
\* paymentMethod or shipping is missing, and otherwise with NotFound when the
\* session has no cart or a cart without items; in each case no order is
\* created and no cart is deleted or changed.  (A step in one of these cases
\* is refused in this way, or it is not the handling of that request.)
C17_OrderInputErrors ==
    [][\A s \in SessionInputs, customer \in CustomerInputs,
          paymentMethod \in PaymentMethodInputs, shipping \in ShippingInputs :
          LET missing == \/ s = "none" \/ customer = "none"
                         \/ paymentMethod = "none"
                         \/ shipping = [missing |-> TRUE]
              noItems == ~missing /\ (~HasCart(s) \/ carts[s].items = <<>>)
              refused == /\ missing => last'.result = "BadRequest"
                         /\ noItems => last'.result = "NotFound"
                         /\ orders' = orders
                         /\ carts' = carts
          IN  ( /\ last'.op = "CreateOrder" /\ last'.session = s
                /\ missing \/ noItems )
              => \/ refused
                 \/ \A stamp \in StampInputs, deleteFails \in BOOLEAN :
                       ~CreateOrder(s, customer, paymentMethod, shipping,
                                    stamp, deleteFails)]_vars

\* a CreateOrder with every field was refused with NotFound for a session
\* whose cart exists and has no items
C17_Witness ==
    /\ last.op = "CreateOrder"
    /\ last.result = "NotFound"
    /\ last.session \in Sessions
    /\ HasCart(last.session)
    /\ carts[last.session].items = <<>>

\* the order with number n is stored
HasOrder(n) == orders[n] # [absent |-> TRUE]

\* C18: UpdatePaymentStatus(orderNumber, paid) on an existing order whose
\* status is pending leaves the order with paymentStatus paid and status
\* processing.
C18_PaidAdvancesPending ==
    [][\A n \in 1..MaxOrders :
          ( /\ last'.op = "UpdatePaymentStatus"
            /\ HasOrder(n)
            /\ orders[n].status = "pending"
            /\ UpdatePaymentStatus(n, "paid") )
          => /\ last'.result = "ok"
             /\ HasOrder(n)'
             /\ orders'[n].paymentStatus = "paid"
             /\ orders'[n].status = "processing"]_vars

\* an order found pending and unpaid was paid and is now processing
C18_Witness ==
    /\ last.op = "UpdatePaymentStatus"
    /\ last.result = "ok"
    /\ last.was = [status |-> "pending", paymentStatus |-> "pending"]
    /\ \E n \in 1..MaxOrders :
          /\ HasOrder(n)
          /\ orders[n].orderNumber = last.session
          /\ orders[n].status = "processing"
          /\ orders[n].paymentStatus = "paid"

\* C19: UpdateStatus(orderNumber, cancelled) on an existing order whose
\* paymentStatus is paid leaves the order with status cancelled and
\* paymentStatus pending.
C19_CancelResetsPaid ==
    [][\A n \in 1..MaxOrders :
          ( /\ last'.op = "UpdateStatus"
            /\ HasOrder(n)
            /\ orders[n].paymentStatus = "paid"
            /\ UpdateStatus(n, "cancelled") )
          => /\ last'.result = "ok"
             /\ HasOrder(n)'
             /\ orders'[n].status = "cancelled"
             /\ orders'[n].paymentStatus = "pending"]_vars

\* an order found paid was cancelled and its payment status is pending again
C19_Witness ==
    /\ last.op = "UpdateStatus"
    /\ last.result = "ok"
    /\ last.was.paymentStatus = "paid"
    /\ \E n \in 1..MaxOrders :
          /\ HasOrder(n)
          /\ orders[n].orderNumber = last.session
          /\ orders[n].status = "cancelled"
          /\ orders[n].paymentStatus = "pending"

\* items, amounts, shipping and order number of order n are what they were
OrderContentsUnchanged(n) ==
    /\ HasOrder(n)'
    /\ orders'[n].items = orders[n].items
    /\ orders'[n].subtotal = orders[n].subtotal
    /\ orders'[n].tax = orders[n].tax
    /\ orders'[n].shipping = orders[n].shipping
    /\ orders'[n].total = orders[n].total
    /\ orders'[n].orderNumber = orders[n].orderNumber

\* C20: UpdateStatus leaves paymentStatus unchanged unless it cancels a paid
\* order, UpdatePaymentStatus leaves status unchanged unless it pays a pending
\* order, and both leave items, subtotal, tax, shipping, total and orderNumber
\* of the order unchanged.
C20_OrderUpdateFrame ==
    [][\A n \in 1..MaxOrders :
          /\ \A status \in StatusInputs :
                ( /\ last'.op = "UpdateStatus"
                  /\ HasOrder(n)
                  /\ UpdateStatus(n, status) )
                => /\ OrderContentsUnchanged(n)
                   /\ ~(status = "cancelled" /\ orders[n].paymentStatus = "paid")
                      => orders'[n].paymentStatus = orders[n].paymentStatus
          /\ \A paymentStatus \in PaymentStatusInputs :
                ( /\ last'.op = "UpdatePaymentStatus"
                  /\ HasOrder(n)
                  /\ UpdatePaymentStatus(n, paymentStatus) )
                => /\ OrderContentsUnchanged(n)
                   /\ ~(paymentStatus = "paid" /\ orders[n].status = "pending")
                      => orders'[n].status = orders[n].status]_vars

\* an order found paid was shipped and is still paid
C20_Witness ==
    /\ last.op = "UpdateStatus"
    /\ last.result = "ok"
    /\ last.was.paymentStatus = "paid"
    /\ \E n \in 1..MaxOrders :
          /\ HasOrder(n)
          /\ orders[n].orderNumber = last.session
          /\ orders[n].status = "shipped"
          /\ orders[n].paymentStatus = "paid"

\* the five order statuses and the six payment statuses of the specification
OrderStatuses == {"pending", "processing", "shipped", "delivered", "cancelled"}
PaymentStatuses ==
    {"pending", "processing", "paid", "failed", "refunded", "refund_pending"}

\* C21 (as claimed): UpdatePaymentStatus on an existing order succeeds and
\* stores the new value, for each of the six payment statuses.
C21_EveryPaymentStatusStored ==
    [][\A n \in 1..MaxOrders, paymentStatus \in PaymentStatuses :
          ( /\ last'.op = "UpdatePaymentStatus"
            /\ HasOrder(n)
            /\ UpdatePaymentStatus(n, paymentStatus) )
          => /\ last'.result = "ok"
             /\ HasOrder(n)'
             /\ orders'[n].paymentStatus = paymentStatus]_vars

\* C22: UpdateStatus fails with BadRequest (400) when the status is not one of
\* the five order statuses, and otherwise with NotFound when no order has the
\* order number; UpdatePaymentStatus does the same for the six payment
\* statuses; and no update that fails changes any order.
C22_OrderUpdateErrors ==
    [][/\ \A n \in 1..MaxOrders, status \in StatusInputs :
             ( /\ last'.op = "UpdateStatus"
               /\ UpdateStatus(n, status) )
             => /\ status \notin OrderStatuses => last'.code = 400
                /\ (status \in OrderStatuses /\ ~HasOrder(n))
                   => last'.result = "NotFound" /\ last'.code = 404
                /\ last'.result # "ok" => orders' = orders
       /\ \A n \in 1..MaxOrders, paymentStatus \in PaymentStatusInputs :
             ( /\ last'.op = "UpdatePaymentStatus"
               /\ UpdatePaymentStatus(n, paymentStatus) )
             => /\ paymentStatus \notin PaymentStatuses => last'.code = 400
                /\ (paymentStatus \in PaymentStatuses /\ ~HasOrder(n))
                   => last'.result = "NotFound" /\ last'.code = 404
                /\ last'.result # "ok" => orders' = orders]_vars

\* an update of the status named an order that does not exist, while another
\* order does, and was answered NotFound
C22_Witness ==
    /\ last.op = "UpdateStatus"
    /\ last.result = "NotFound"
    /\ last.session = OrderNumber(MaxOrders)
    /\ ~HasOrder(MaxOrders)
    /\ HasOrder(1)

\* C23: a cart record whose status has left active never has status active
\* again, whatever request is handled; a session that has no active cart gets
\* one only by Create storing a new cart where the session had none.
C23_StatusMonotonic ==
    [][\A s \in Sessions :
          /\ (HasCart(s) /\ carts[s].status # "active")
             => (HasCart(s)' => carts'[s].status # "active")
          /\ ( /\ HasCart(s)'
               /\ carts'[s].status = "active"
               /\ ~(HasCart(s) /\ carts[s].status = "active") )
             => /\ ~HasCart(s)
                /\ last'.op = "Create"
                /\ last'.session = s
                /\ carts'[s] = NewCart(s)]_vars

\* a cart went stale, was marked expired by a request that found it, and a
\* later AddItem on it was refused
C23_Witness ==
    /\ last.op = "AddItem"
    /\ last.result = "Conflict"
    /\ HasCart(last.session)
    /\ carts[last.session].status = "expired"
    /\ now > 0

\* the active carts stored for session s
ActiveDocs(s) ==
    {i \in 1..Len(cartDocs) :
        cartDocs[i].sessionId = s /\ cartDocs[i].status = "active"}

\* C24: at most one active cart is stored for a sessionId, also when two
\* Create requests for the session are handled at the same time and both have
\* looked for its cart before either has inserted one.
C24_OneActiveCartPerSession ==
    \A s \in Sessions : Cardinality(ActiveDocs(s)) <= 1

\* two Create requests for session s2 both found no cart; one has inserted its
\* cart and the other is about to insert
C24_Witness ==
    /\ last.op = "Create" /\ last.session = "s2" /\ last.result = "ok"
    /\ ActiveDocs("s2") # {}
    /\ \E r \in Requests : reqs[r] = [pc |-> "insert", session |-> "s2"]

\* requests r1 and r2 were both answered with success by AddItem after adding
\* to the same line of the same cart, which both had read with the same
\* quantity: each read it before the other saved
BothAddedToLine(r1, r2) ==
    /\ r1 # r2
    /\ reqs[r1].pc = "done" /\ reqs[r2].pc = "done"
    /\ reqs[r1].doc = reqs[r2].doc
    /\ reqs[r1].index > 0
    /\ reqs[r1].index = reqs[r2].index
    /\ reqs[r1].seen = reqs[r2].seen

\* C25: two AddItem requests on the same cart can race.  When both read the
\* line before either saves, both saves succeed (nothing locks the cart or
\* compares versions) and the stored quantity is what one of them computed:
\* the addition of the other is lost.
C25_LostUpdate ==
    \A r1 \in Requests, r2 \in Requests :
        BothAddedToLine(r1, r2)
        => LET stored == cartDocs[reqs[r1].doc].items[reqs[r1].index].quantity
           IN  /\ stored \in {reqs[r1].seen + reqs[r1].quantity,
                              reqs[r2].seen + reqs[r2].quantity}
               /\ stored < reqs[r1].seen + reqs[r1].quantity + reqs[r2].quantity

\* both requests added 3 to the line of session s1 that held 2, both were
\* answered with success, and the line holds 5
C25_Witness ==
    /\ BothAddedToLine("r1", "r2")
    /\ last.op = "AddItem" /\ last.result = "ok"
    /\ reqs["r1"].seen = 2
    /\ cartDocs[reqs["r1"].doc].items[reqs["r1"].index].quantity = 5

\* C26 (as claimed): the order numbers of the stored orders are distinct and
\* never change, and a CreateOrder whose Order.create runs at the clock
\* reading of the order of another session still stores its order, under a
\* number of its own.
C26_OrderNumbersDistinct ==
    [][/\ \A m \in 1..MaxOrders, n \in 1..MaxOrders :
             /\ (m # n /\ HasOrder(m) /\ HasOrder(n))
                => orders[m].orderNumber # orders[n].orderNumber
             /\ (HasOrder(n) /\ HasOrder(n)')
                => orders'[n].orderNumber = orders[n].orderNumber
       /\ \A r \in Requests, stamp \in StampInputs :
             ( /\ reqs[r].pc = "found"
               /\ reqs[r].shipping.cost # NoCost
               /\ HasOrder(stamp)
               /\ orders[stamp].items # reqs[r].items
               /\ OrderCount < MaxOrders
               /\ InsertOrder(r, stamp) )
             => \E n \in 1..MaxOrders :
                   /\ ~HasOrder(n)
                   /\ HasOrder(n)'
                   /\ orders'[n].items = reqs[r].items]_vars

\* an order amount, counted in hundredths of a cent, has 2 decimal places
TwoDecimals(amount) == amount % 100 = 0

\* C28 (as claimed): the subtotal, tax and total stored on an order are each
\* rounded to 2 decimal places.
C28_OrderAmountsRounded ==
    \A n \in 1..MaxOrders :
        HasOrder(n)
        => /\ TwoDecimals(orders[n].subtotal)
           /\ TwoDecimals(orders[n].tax)
           /\ TwoDecimals(orders[n].total)

\* C27 (as claimed): for the item list of every cart, the Totals Calculator
\* returns subtotal = sum of price * quantity, tax = 10% of it and total =
\* subtotal + tax, each rounded to 2 decimals, with total >= subtotal >= 0.
C27_TotalsCalculator ==
    \A s \in Sessions :
        HasCart(s)
        => LET totals == calculateCartTotals(carts[s].items)
           IN  /\ totals = ClaimTotals(carts[s].items)
               /\ totals.total >= totals.subtotal
               /\ totals.subtotal >= 0

\* the lines cart s held keep their place and their price
LinePricesUnchanged(s) ==
    /\ HasCart(s)'
    /\ Len(carts'[s].items) >= Len(carts[s].items)
    /\ \A i \in 1..Len(carts[s].items) :
          carts'[s].items[i].price = carts[s].items[i].price

\* C29: prices are snapshots.  A change of the price of a product changes no
\* cart and no order; an AddItem that succeeds, also one that adds quantity to
\* a line that exists, leaves the price of every line the cart held; and no
\* request changes the items, subtotal, tax or total of a stored order.
C29_PriceSnapshots ==
    [][/\ last'.op = "UpdateProductPrice"
          => carts' = carts /\ orders' = orders
       /\ \A s \in Sessions :
             ( /\ last'.op = "AddItem" /\ last'.session = s
               /\ last'.result = "ok" )
             => LinePricesUnchanged(s)
       /\ \A n \in 1..MaxOrders :
             HasOrder(n)
             => /\ HasOrder(n)'
                /\ orders'[n].items = orders[n].items
                /\ orders'[n].subtotal = orders[n].subtotal
                /\ orders'[n].tax = orders[n].tax
                /\ orders'[n].total = orders[n].total]_vars

\* after the price of p1 was changed, AddItem added 5 to the line of p1 in the
\* cart of s1, and the line still has the price it was added with
C29_Witness ==
    /\ last.op = "AddItem" /\ last.session = "s1" /\ last.result = "ok"
    /\ products["p1"].price = 2500
    /\ HasCart("s1")
    /\ carts["s1"].items[1].product = "p1"
    /\ carts["s1"].items[1].quantity = 7
    /\ carts["s1"].items[1].price = 1999

\* the lines of items with _id itemId
LinesWithId(items, itemId) == {i \in 1..Len(items) : items[i].id = itemId}

\* C30: UpdateItemQuantity with a quantity from 1 to 10 on an active cart that
\* is not expired fails with NotFound when the cart has no item with the item
\* id, else with Unavailable when the product of the item is missing or
\* inactive, else with InsufficientInventory when inventory.quantity -
\* inventory.reserved is less than the quantity, each time leaving the cart
\* unchanged; otherwise it succeeds, the item has the requested quantity and
\* every other item, and every other field of the item, is unchanged.
C30_UpdateItemQuantity ==
    [][\A s \in Sessions, itemId \in ItemIdInputs, quantity \in QuantityInputs :
          ( /\ last'.op = "UpdateItemQuantity" /\ last'.session = s
            /\ quantity >= 1 /\ quantity <= 10
            /\ HasCart(s)
            /\ carts[s].status = "active"
            /\ ~Stale(s)
            /\ UpdateItemQuantity(s, itemId, quantity) )
          => LET items == carts[s].items
                 lines == LinesWithId(items, itemId)
                 line == CHOOSE i \in lines : TRUE
                 product == products[items[line].product]
                 gone == product = [gone |-> TRUE] \/ ~product.isActive
                 short == product.quantity - product.reserved < quantity
             IN  IF lines = {}
                 THEN last'.result = "NotFound" /\ carts' = carts
                 ELSE IF gone
                 THEN last'.result = "Unavailable" /\ carts' = carts
                 ELSE IF short
                 THEN last'.result = "InsufficientInventory" /\ carts' = carts
                 ELSE /\ last'.result = "ok"
                      /\ HasCart(s)'
                      /\ Len(carts'[s].items) = Len(items)
                      /\ carts'[s].items[line] =
                            [items[line] EXCEPT !.quantity = quantity]
                      /\ \A i \in 1..Len(items) :
                            i # line => carts'[s].items[i] = items[i]
                      /\ \A t \in Sessions : t # s => carts'[t] = carts[t]]_vars

\* the first of the two lines of the cart of s1 was given quantity 5 and the
\* second line is as it was
C30_Witness ==
    /\ last.op = "UpdateItemQuantity" /\ last.session = "s1"
    /\ last.result = "ok"
    /\ HasCart("s1")
    /\ Len(carts["s1"].items) = 2
    /\ carts["s1"].items[1].quantity = 5
    /\ carts["s1"].items[2] = OrderItems[2]

\* C31: RemoveItem on an active cart that is not expired removes the item with
\* the item id and keeps every other item, in the same order; when no item
\* has the id it fails with NotFound and changes nothing.
C31_RemoveItem ==
    [][\A s \in Sessions, itemId \in ItemIdInputs :
          ( /\ last'.op = "RemoveItem" /\ last'.session = s
            /\ HasCart(s)
            /\ carts[s].status = "active"
            /\ ~Stale(s)
            /\ RemoveItem(s, itemId) )
          => LET items == carts[s].items
             IN  IF LinesWithId(items, itemId) = {}
                 THEN last'.result = "NotFound" /\ carts' = carts
                 ELSE /\ last'.result = "ok"
                      /\ HasCart(s)'
                      /\ Len(carts'[s].items) = Len(items) - 1
                      /\ carts'[s].items =
                            SelectSeq(items, LAMBDA item : item.id # itemId)
                      /\ \A t \in Sessions : t # s => carts'[t] = carts[t]]_vars

\* the first of the two lines of the cart of s1 was removed and the second
\* line is what is left
C31_Witness ==
    /\ last.op = "RemoveItem" /\ last.session = "s1"
    /\ last.result = "ok"
    /\ HasCart("s1")
    /\ carts["s1"].items = <<OrderItems[2]>>

\* C32: a cart as Create stores it has no updatedAt, and a cart without
\* updatedAt is not reported as expired by Get, AddItem, UpdateItemQuantity,
\* RemoveItem, Clear or Create, nor marked expired, whatever the time is.
C32_UnsetNeverExpires ==
    [][\A s \in Sessions :
          /\ (last'.op = "Create" /\ last'.session = s /\ last'.result = "ok")
             => carts'[s].updatedAt = NoDate
          /\ ( /\ HasCart(s)
               /\ carts[s].updatedAt = NoDate
               /\ last'.session = s
               /\ last'.op \in {"Get", "AddItem", "UpdateItemQuantity",
                                "RemoveItem", "Clear", "Create"} )
             => /\ last'.result # "Expired"
                /\ carts'[s].status = carts[s].status
                /\ last'.op = "Create" => last'.result = "Conflict"]_vars

\* more than 24 hours after the start, a cart that was created and not changed
\* since was read with success
C32_Witness ==
    /\ now > CART_EXPIRATION_HOURS
    /\ last.op = "Get" /\ last.result = "ok"
    /\ HasCart(last.session)
    /\ carts[last.session] = NewCart(last.session)

\* C33 (as claimed): a Get that succeeds returns a cart whose status is
\* active, never one whose stored status is expired or merged.
C33_GetOnlyActive ==
    [][\A s \in Sessions :
          (IsGet(s) /\ last'.result = "ok") => carts'[s].status = "active"]_vars

\* what a request on the cart of s does not change when it fails
FailureFrame(s) ==
    /\ HasCart(s) = HasCart(s)'
    /\ HasCart(s) =>
          /\ carts'[s].items = carts[s].items
          /\ carts'[s].totals = carts[s].totals
          /\ carts'[s].updatedAt = carts[s].updatedAt
          /\ carts'[s].status # carts[s].status
             => /\ carts'[s].status = "expired"
                /\ last'.result = "Expired"
                /\ Stale(s)
    /\ \A t \in Sessions : t # s => carts'[t] = carts[t]

\* C36: an AddItem, UpdateItemQuantity, RemoveItem or Clear that fails leaves
\* items, totals and updatedAt of the cart unchanged; it changes at most the
\* status, and only the expiry check does, setting it to expired.
C36_FailuresChangeNothing ==
    [][\A s \in Sessions :
          ( /\ last'.session = s
            /\ last'.op \in {"AddItem", "UpdateItemQuantity", "RemoveItem",
                             "Clear"}
            /\ last'.result # "ok" )
          => FailureFrame(s)]_vars

\* a request on a cart with lines that had gone stale was refused as expired:
\* the cart is marked expired and has its lines
C36_Witness ==
    /\ last.op \in {"AddItem", "UpdateItemQuantity", "RemoveItem", "Clear"}
    /\ last.result = "Expired"
    /\ HasCart(last.session)
    /\ carts[last.session].status = "expired"
    /\ carts[last.session].items # <<>>

\* two lines of items have the same product and the same variant
DuplicateLines(items) ==
    \E i \in 1..Len(items), j \in 1..Len(items) :
        /\ i < j
        /\ items[i].product = items[j].product
        /\ items[i].variant = items[j].variant

\* C34: when requests are handled one after the other, no cart holds two
\* lines with the same product and the same variant, whatever AddItem,
\* UpdateItemQuantity, RemoveItem, Clear and Merge requests were handled.
C34_NoDuplicateLines ==
    \A s \in Sessions : HasCart(s) => ~DuplicateLines(carts[s].items)

\* AddItem appended a line for a product the cart has a line of, with another
\* variant
C34_Witness ==
    /\ last.op = "AddItem" /\ last.result = "ok"
    /\ HasCart(last.session)
    /\ LET items == carts[last.session].items
       IN  /\ Len(items) >= 2
           /\ items[Len(items)].id <= MaxItemIds
           /\ \E i \in 1..(Len(items) - 1) :
                 /\ items[i].product = items[Len(items)].product
                 /\ items[i].variant # items[Len(items)].variant

\* C35 (as claimed): right after an AddItem or UpdateItemQuantity that
\* succeeds, the quantity of the line it added to or changed is at most
\* inventory.quantity - inventory.reserved of the product.
C35_LineWithinInventory ==
    [][\A s \in Sessions :
          /\ \A p \in RequestedProducts, q \in ValidQuantities,
                v \in VariantInputs :
                ( /\ last'.op = "AddItem" /\ last'.session = s
                  /\ last'.result = "ok"
                  /\ AddItem(s, p, q, v) )
                => LET found == FindLineIndex(carts[s].items, p, v)
                       line == IF found > 0 THEN found
                               ELSE Len(carts'[s].items)
                   IN  carts'[s].items[line].quantity
                          <= products[p].quantity - products[p].reserved
          /\ \A i \in ItemIdInputs, q \in ValidQuantities :
                ( /\ last'.op = "UpdateItemQuantity" /\ last'.session = s
                  /\ last'.result = "ok"
                  /\ UpdateItemQuantity(s, i, q) )
                => \A line \in LinesWithId(carts'[s].items, i) :
                      LET item == carts'[s].items[line]
                      IN  item.quantity <= products[item.product].quantity
                                           - products[item.product].reserved]_vars
====
